---- MODULE Spec2Model ----
(***************************************************************************)
(* Model of src/02_C_Source/Windows/FileMonitor.c: the JNI directory       *)
(* watcher built on ReadDirectoryChangesW.                                 *)
(*                                                                         *)
(* The program keeps one process-wide MonitorState (gState) and a cached   *)
(* JavaVM pointer (gJvm).  Java threads enter the four native methods      *)
(* startMonitoring, stopMonitoring, getNativeMonitorStats and              *)
(* isMonitoringActive.  startMonitoring runs its watch loop in the thread  *)
(* that called it; nothing in the file takes a lock, so every read and     *)
(* write of gState is its own step of the calling thread.                  *)
(*                                                                         *)
(* Environment (not code of the repository): the OS owns the table of open *)
(* handles, the JVM owns the table of global references; both hand out     *)
(* values that are free at the time, so a closed value can come back.  A   *)
(* synchronous ReadDirectoryChangesW pending on a handle returns when the  *)
(* OS has a buffer, when the OS reports an error, or when the handle is    *)
(* closed.  Every JNI and OS call that can fail may fail.                  *)
(***************************************************************************)
EXTENDS Integers, Sequences, FiniteSets, TLC

\* ------------------------------------------------------------------ bounds
MaxBufLen  == 2   \* FILE_NOTIFY_INFORMATION records in one buffer
MaxRawLen  == 24  \* bytes ReadDirectoryChangesW reports as written (bytesReturned)
MaxOffset  == 48  \* the walk over the bytes of a buffer is followed up to this offset
LongNameBytes == 4096  \* a FileNameLength of more than MAX_PATH_LEN - 1 characters

\* ------------------------------------------------------- program constants
NULL == 0                          \* null handle / null reference / null method id
FILE_ACTION_ADDED            == 1
FILE_ACTION_REMOVED          == 2
FILE_ACTION_MODIFIED         == 3
FILE_ACTION_RENAMED_OLD_NAME == 4
FILE_ACTION_RENAMED_NEW_NAME == 5
ACTION_OTHER                 == 6  \* any code the switch has no case for
HalfWord == 65536                  \* a DWORD is two 16-bit halves; `long` has 32 bits
MAX_PATH_LEN == 1024
HeaderBytes == 12                  \* offsetof(FILE_NOTIFY_INFORMATION, FileName)
WCharBytes == 2                    \* sizeof(wchar_t)

Threads    == {"t1", "t2"}         \* Java threads calling the native methods
MonitorIds == {1, 2}               \* jint monitorPathId arguments
\* each thread watches for one monitored path of the application: the id it
\* passes to startMonitoring
MonitorIdOf(t) == IF t = "t1" THEN 1 ELSE 2
NullString == "<null>"             \* a null jstring
Paths      == {NullString, "", "A"} \* jPath arguments
Dirs       == {"A"}                \* the paths CreateFileW can open
NoObject   == "<null>"             \* a null jobject
Callbacks  == {NoObject, "cb"}     \* jCallback arguments
\* The values the OS and the JVM hand out.  Which value a call gets is the
\* environment's choice; the model names each value after the thread it is
\* handed to, so a thread's next session gets the value of its last one again
\* (values are recycled), and a value still in use cannot be handed out: while
\* a thread's handle is leaked, its later attempts to open the directory fail.
HandleOf(t)   == IF t = "t1" THEN 1 ELSE 2
CallbackRefOf(t) == IF t = "t1" THEN 1 ELSE 3
ClassRefOf(t)    == IF t = "t1" THEN 2 ELSE 4
Actions == FILE_ACTION_ADDED .. ACTION_OTHER
\* the i-th record of a buffer names file "f<i>"
FileNameAt(i) == CASE i = 1 -> "f1" [] i = 2 -> "f2" [] i = 3 -> "f3" [] OTHER -> "f4"
\* The watched directory: the WIN32_FILE_ATTRIBUTE_DATA of each file, as
\* nFileSizeHigh and the two 16-bit halves of nFileSizeLow.  f1 has 100 bytes,
\* f2 has 2^31, f3 has 2^32 + 7; GetFileAttributesExW fails for any other name.
NoFile == [missing |-> TRUE]
FileAttributes(name) ==
    CASE name = "f1" -> [nFileSizeHigh |-> 0, lowHi |-> 0,     lowLo |-> 100]
      [] name = "f2" -> [nFileSizeHigh |-> 0, lowHi |-> 32768, lowLo |-> 0]
      [] name = "f3" -> [nFileSizeHigh |-> 1, lowHi |-> 0,     lowLo |-> 7]
      [] OTHER       -> NoFile

\* buffers ReadDirectoryChangesW can fill: 1..MaxBufLen chained records,
\* NextEntryOffset = 0 exactly in the last one
RECURSIVE BuffersOfLen(_)
BuffersOfLen(n) ==
    IF n = 0 THEN {<< >>}
    ELSE { Append(b, [Action |-> a, FileName |-> FileNameAt(n)]) :
             b \in BuffersOfLen(n - 1), a \in Actions }
Buffers == UNION { BuffersOfLen(n) : n \in 1 .. MaxBufLen }

VARIABLES
    gJvm,         \* static JavaVM* gJvm: TRUE once JNI_OnLoad cached it
    gState,       \* static MonitorState gState
    openHandles,  \* OS: directory handles currently open
    liveRefs,     \* JVM: global references currently live
    crashed,      \* the process died on undefined behaviour
    pc,           \* per thread: the source line it is about to execute
    argId,        \* per thread: the monitorPathId argument of the native call: of
                  \* startMonitoring until line 110 stored it, of stopMonitoring
                  \* until it returns
    hDir,         \* per thread: startMonitoring's local hDir
    waitH,        \* per thread: the handle its pending ReadDirectoryChangesW waits on
    buf,          \* per thread: the records of its local buffer
    idx,          \* per thread: pNotify, as an index into buf
    delivered,    \* per thread: consumer invocations made for the current buffer
    waitFailed,   \* per thread: its latest wait returned FALSE on an open handle
    stopSeen,     \* per thread: whether a stopMonitoring call overlapped its
                  \* startMonitoring call, and whether one began while it waited
                  \* or while it was at lines 94-112
    everStarted,  \* some startMonitoring has been entered
    parser,       \* the walk of lines 186-278 over the bytes of one buffer: its valid
                  \* length, pNotify as a byte offset, the header read there, and
                  \* the end of the latest read
    env           \* the run's environment: the threads the application lets call
                  \* startMonitoring, those it lets call stopMonitoring, and the
                  \* buffers the OS has to deliver

vars == << gJvm, gState, openHandles, liveRefs, crashed,
           pc, argId, hDir, waitH, buf, idx, delivered, waitFailed,
           stopSeen, everStarted, parser, env >>

osVars   == << openHandles >>
jvmVars  == << liveRefs >>
callVars == << argId, hDir >>
loopVars == << buf, idx, delivered, waitFailed >>
histVars == << stopSeen, everStarted, parser, env >>

\* static MonitorState gState = {0}.  onEventMethod is left out: it is written
\* at line 145 and read at line 247 only, and a jmethodID needs no release.
InitState ==
    [ monitorPathId  |-> 0,
      dirHandle      |-> NULL,
      callbackGlobal |-> NULL,
      callbackClass  |-> NULL,
      dirPathW       |-> "",
      running        |-> 0 ]

\* no buffer is being walked
NoParse == [at |-> "none", L |-> 0, off |-> 0, hdr |-> << >>, readEnd |-> 0]

InitProgram ==
    /\ gJvm = FALSE
    /\ gState = InitState
    /\ openHandles = {}
    /\ liveRefs = {}
    /\ crashed = FALSE
    /\ pc = [t \in Threads |-> "idle"]
    /\ argId = [t \in Threads |-> 0]
    /\ hDir = [t \in Threads |-> NULL]
    /\ waitH = [t \in Threads |-> NULL]
    /\ buf = [t \in Threads |-> << >>]
    /\ idx = [t \in Threads |-> 0]
    /\ delivered = [t \in Threads |-> << >>]
    /\ waitFailed = [t \in Threads |-> FALSE]
    /\ stopSeen = [t \in Threads |-> "none"]
    /\ everStarted = FALSE
    /\ parser = NoParse

\* Both threads start watchers, at any time; t2 also stops them.  The OS
\* reports one change at a time: a created file, or the new name of a renamed one.
OneRecordBuffers ==
    { b \in BuffersOfLen(1) :
        b[1].Action \in {FILE_ACTION_ADDED, FILE_ACTION_RENAMED_NEW_NAME} }

Init ==
    /\ InitProgram
    /\ env = [starters |-> Threads, stoppers |-> {"t2"}, buffers |-> OneRecordBuffers]

\* t1 runs the watcher, t2 stops it; the OS delivers every buffer of up to
\* MaxBufLen records.
InitBuffers ==
    /\ InitProgram
    /\ env = [starters |-> {"t1"}, stoppers |-> {"t2"}, buffers |-> Buffers]

\* ----------------------------------------------------------------- helpers

\* the source lines a thread can be at: in stopMonitoring, in the watch loop
\* of startMonitoring, in the cleanup at the end of startMonitoring
StopPcs == {"p326", "p329", "p332", "p337", "p339", "p341"}
LoopPcs == {"s168", "s169", "wait", "s183", "s188"}
CleanupPcs == {"s286", "s289", "s292", "s297", "s299", "s301", "s307"}
\* startMonitoring between CreateFileW and the store of gState.running
InitPcs == {"s94", "s110", "s112"}
InStart(t) == pc[t] \notin StopPcs \cup {"idle"}

\* a native method can be entered: the library is loaded and the process lives
Callable(t) == gJvm /\ ~crashed /\ pc[t] = "idle"
At(t, line) == ~crashed /\ pc[t] = line

Goto(t, line) == pc' = [pc EXCEPT ![t] = line]

\* startMonitoring returns: its locals are gone
Return(t) ==
    /\ pc' = [pc EXCEPT ![t] = "idle"]
    /\ argId' = [argId EXCEPT ![t] = 0]
    /\ hDir' = [hDir EXCEPT ![t] = NULL]
    /\ stopSeen' = [stopSeen EXCEPT ![t] = "none"]
    /\ UNCHANGED << everStarted, parser, env >>

\* CloseHandle(h): closes h if it is open, and the calls pending on h return; a
\* value that is no open handle is refused
CloseHandle(h) ==
    /\ openHandles' = openHandles \ {h}
    /\ waitH' = [t \in Threads |-> IF waitH[t] = h THEN NULL ELSE waitH[t]]

\* DeleteGlobalRef(r)
DeleteGlobalRef(r) ==
    liveRefs' = liveRefs \ {r}

\* a handle value that passes `h && h != INVALID_HANDLE_VALUE`
NonNullHandle(h) == h # NULL

\* join_path_w: dir, a separator, file
join_path_w(dir, file) == << dir, "\\", file >>

\* (long)fad.nFileSizeLow: the low DWORD reinterpreted as a signed 32-bit long
ToLong(fad) ==
    IF 2 * fad.lowHi >= HalfWord
    THEN (fad.lowHi - HalfWord) * HalfWord + fad.lowLo
    ELSE fad.lowHi * HalfWord + fad.lowLo

\* the switch on pNotify->Action
ActionTag(a) ==
    CASE a = FILE_ACTION_ADDED            -> "CREATE"
      [] a = FILE_ACTION_MODIFIED         -> "MODIFY"
      [] a = FILE_ACTION_REMOVED          -> "DELETE"
      [] a = FILE_ACTION_RENAMED_OLD_NAME -> "RENAME"
      [] OTHER                            -> "UNKNOWN"

\* the process dies: a use of a dangling or null reference took the JVM down
Crash ==
    /\ crashed' = TRUE
    /\ UNCHANGED << gJvm, gState, osVars, jvmVars, pc, callVars, waitH, loopVars, histVars >>

\* ------------------------------------------------------------- JNI_OnLoad
JNI_OnLoad ==
    /\ ~gJvm
    /\ gJvm' = TRUE
    /\ UNCHANGED << gState, osVars, jvmVars, crashed, pc, callVars, waitH, loopVars,
                    histVars >>

\* ------------------------------------------------------- startMonitoring
\* lines 76-79: null path or null callback
StartNullArg(t) ==
    /\ Callable(t) /\ t \in env.starters
    /\ \E id \in {MonitorIdOf(t)}, path \in Paths, cb \in Callbacks :
          path = NullString \/ cb = NoObject
    /\ everStarted' = TRUE
    /\ UNCHANGED << gJvm, gState, osVars, jvmVars, crashed, pc, callVars, waitH,
                    loopVars, stopSeen, parser, env >>

\* lines 82-86: GetStringChars returns NULL
StartGetCharsFailed(t) ==
    /\ Callable(t) /\ t \in env.starters
    /\ \E id \in {MonitorIdOf(t)}, path \in Paths \ {NullString},
          cb \in Callbacks \ {NoObject} : TRUE
    /\ everStarted' = TRUE
    /\ UNCHANGED << gJvm, gState, osVars, jvmVars, crashed, pc, callVars, waitH,
                    loopVars, stopSeen, parser, env >>

\* lines 76-91: the arguments pass, the path is copied into gState.dirPathW
StartCopyPath(t) ==
    /\ Callable(t) /\ t \in env.starters
    /\ \E id \in {MonitorIdOf(t)}, path \in Paths \ {NullString},
          cb \in Callbacks \ {NoObject} :
          /\ argId' = [argId EXCEPT ![t] = id]
          /\ gState' = [gState EXCEPT !.dirPathW = path]
    /\ Goto(t, "s94")
    /\ everStarted' = TRUE
    /\ stopSeen' = [stopSeen EXCEPT ![t] =
                        IF \E u \in Threads : pc[u] \in StopPcs THEN "stop" ELSE "none"]
    /\ UNCHANGED << gJvm, osVars, jvmVars, crashed, hDir, waitH, loopVars, parser,
                    env >>

\* lines 94-108: CreateFileW(gState.dirPathW) fails
StartOpenFailed(t) ==
    /\ At(t, "s94")
    /\ Return(t)
    /\ UNCHANGED << gJvm, gState, osVars, jvmVars, crashed, waitH, loopVars >>

\* lines 94-102: CreateFileW(gState.dirPathW) opens the directory
StartOpenDir(t) ==
    /\ At(t, "s94")
    /\ gState.dirPathW \in Dirs
    /\ HandleOf(t) \notin openHandles
    /\ openHandles' = openHandles \cup {HandleOf(t)}
    /\ hDir' = [hDir EXCEPT ![t] = HandleOf(t)]
    /\ Goto(t, "s110")
    /\ UNCHANGED << gJvm, gState, jvmVars, crashed, argId, waitH, loopVars,
                    histVars >>

\* lines 110-111
StartStoreHandle(t) ==
    /\ At(t, "s110")
    /\ gState' = [gState EXCEPT !.monitorPathId = argId[t], !.dirHandle = hDir[t]]
    /\ argId' = [argId EXCEPT ![t] = 0]
    /\ Goto(t, "s112")
    /\ UNCHANGED << gJvm, osVars, jvmVars, crashed, hDir, waitH, loopVars, histVars >>

\* line 112
StartSetRunning(t) ==
    /\ At(t, "s112")
    /\ gState' = [gState EXCEPT !.running = 1]
    /\ Goto(t, "s115")
    /\ UNCHANGED << gJvm, osVars, jvmVars, crashed, callVars, waitH, loopVars, histVars >>

\* line 115: NewGlobalRef(jCallback) succeeds
StartCallbackRef(t) ==
    /\ At(t, "s115")
    /\ CallbackRefOf(t) \notin liveRefs
    /\ liveRefs' = liveRefs \cup {CallbackRefOf(t)}
    /\ gState' = [gState EXCEPT !.callbackGlobal = CallbackRefOf(t)]
    /\ Goto(t, "s124")
    /\ UNCHANGED << gJvm, osVars, crashed, callVars, waitH, loopVars,
                    histVars >>

\* lines 115-121: NewGlobalRef(jCallback) returns NULL
StartCallbackRefFailed(t) ==
    /\ At(t, "s115")
    /\ CloseHandle(hDir[t])
    /\ gState' = [gState EXCEPT !.callbackGlobal = NULL, !.dirHandle = NULL]
    /\ Return(t)
    /\ UNCHANGED << gJvm, jvmVars, crashed, loopVars >>

\* line 124: GetObjectClass(gState.callbackGlobal) succeeds.  The reference is
\* read back from gState: a stopMonitoring may have deleted it meanwhile, and
\* then the call is undefined (it may still answer, or kill the process).
StartGetClass(t) ==
    /\ At(t, "s124")
    /\ gState.callbackGlobal # NULL
    /\ Goto(t, "s133")
    /\ UNCHANGED << gJvm, gState, osVars, jvmVars, crashed, callVars, waitH, loopVars,
                    histVars >>

StartGetClassCrash(t) ==
    /\ At(t, "s124")
    /\ gState.callbackGlobal \notin liveRefs
    /\ Crash

\* lines 125-132: GetObjectClass returns NULL
StartGetClassFailed(t) ==
    /\ At(t, "s124")
    /\ DeleteGlobalRef(gState.callbackGlobal)
    /\ CloseHandle(hDir[t])
    /\ gState' = [gState EXCEPT !.callbackGlobal = NULL, !.dirHandle = NULL]
    /\ Return(t)
    /\ UNCHANGED << gJvm, crashed, loopVars >>

\* lines 133-134: NewGlobalRef(cbClsLocal) succeeds
StartClassRef(t) ==
    /\ At(t, "s133")
    /\ ClassRefOf(t) \notin liveRefs
    /\ liveRefs' = liveRefs \cup {ClassRefOf(t)}
    /\ gState' = [gState EXCEPT !.callbackClass = ClassRefOf(t)]
    /\ Goto(t, "s145")
    /\ UNCHANGED << gJvm, osVars, crashed, callVars, waitH, loopVars,
                    histVars >>

\* lines 133-142: NewGlobalRef(cbClsLocal) returns NULL
StartClassRefFailed(t) ==
    /\ At(t, "s133")
    /\ DeleteGlobalRef(gState.callbackGlobal)
    /\ CloseHandle(hDir[t])
    /\ gState' = [gState EXCEPT !.callbackClass = NULL, !.callbackGlobal = NULL,
                                !.dirHandle = NULL]
    /\ Return(t)
    /\ UNCHANGED << gJvm, crashed, loopVars >>

\* lines 145-150: GetMethodID(gState.callbackClass, "onNativeFileEvent", ...) finds
\* the method; whether the consumer's class has it is decided here, where the
\* code first looks at the class
StartGetMethod(t) ==
    /\ At(t, "s145")
    /\ gState.callbackClass # NULL
    /\ hDir' = [hDir EXCEPT ![t] = NULL]
    /\ Goto(t, "s168")
    /\ UNCHANGED << gJvm, gState, osVars, jvmVars, crashed, argId, waitH, loopVars,
                    histVars >>

StartGetMethodCrash(t) ==
    /\ At(t, "s145")
    /\ gState.callbackClass \notin liveRefs
    /\ Crash

\* lines 145-160: the class has no onNativeFileEvent of that signature
StartGetMethodFailed(t) ==
    /\ At(t, "s145")
    /\ liveRefs' = liveRefs \ {gState.callbackClass, gState.callbackGlobal}
    /\ CloseHandle(hDir[t])
    /\ gState' = [gState EXCEPT !.callbackClass = NULL, !.callbackGlobal = NULL,
                                !.dirHandle = NULL]
    /\ Return(t)
    /\ UNCHANGED << gJvm, crashed, loopVars >>

\* ------------------------------------------------------- the watch loop
\* line 168, left operand: while (gState.running && ...
LoopCheckRunning(t) ==
    /\ At(t, "s168")
    /\ IF gState.running # 0 THEN Goto(t, "s169") ELSE Goto(t, "s286")
    /\ buf' = [buf EXCEPT ![t] = << >>]
    /\ idx' = [idx EXCEPT ![t] = 0]
    /\ delivered' = [delivered EXCEPT ![t] = << >>]
    /\ UNCHANGED << gJvm, gState, osVars, jvmVars, crashed, callVars, waitH, waitFailed,
                    histVars >>

\* lines 169-181: ReadDirectoryChangesW(gState.dirHandle, ...) is entered.  On a
\* value that is no open handle it returns FALSE at once and the loop ends.
LoopIssueWait(t) ==
    /\ At(t, "s169")
    /\ IF gState.dirHandle \in openHandles
       THEN /\ Goto(t, "wait")
            /\ waitH' = [waitH EXCEPT ![t] = gState.dirHandle]
       ELSE /\ Goto(t, "s286")
            /\ waitH' = [waitH EXCEPT ![t] = NULL]
    /\ UNCHANGED << gJvm, gState, osVars, jvmVars, crashed, callVars, loopVars, histVars >>

\* OS: the pending call returns TRUE with a chain of records
WaitBuffer(t) ==
    /\ At(t, "wait")
    /\ waitH[t] \in openHandles
    /\ \E b \in env.buffers : buf' = [buf EXCEPT ![t] = b]
    /\ idx' = [idx EXCEPT ![t] = 1]
    /\ waitH' = [waitH EXCEPT ![t] = NULL]
    /\ Goto(t, "s183")
    /\ UNCHANGED << gJvm, gState, osVars, jvmVars, crashed, callVars, delivered,
                    waitFailed, histVars >>

\* OS: the pending call returns TRUE with bytesReturned = 0 (its buffer overflowed)
WaitEmpty(t) ==
    /\ At(t, "wait")
    /\ waitH[t] \in openHandles
    /\ waitH' = [waitH EXCEPT ![t] = NULL]
    /\ Goto(t, "s183")
    /\ UNCHANGED << gJvm, gState, osVars, jvmVars, crashed, callVars, loopVars,
                    histVars >>

\* OS: the pending call returns FALSE although its handle is open (a wait failure)
WaitFailed(t) ==
    /\ At(t, "wait")
    /\ waitH[t] \in openHandles
    /\ waitFailed' = [waitFailed EXCEPT ![t] = TRUE]
    /\ waitH' = [waitH EXCEPT ![t] = NULL]
    /\ Goto(t, "s286")
    /\ UNCHANGED << gJvm, gState, osVars, jvmVars, crashed, callVars, buf, idx,
                    delivered, histVars >>

\* OS: the handle of the pending call was closed; the call returns, either
\* FALSE or TRUE with no bytes
WaitHandleClosed(t) ==
    /\ At(t, "wait")
    /\ waitH[t] = NULL
    /\ \/ Goto(t, "s286")
       \/ Goto(t, "s183")
    /\ UNCHANGED << gJvm, gState, osVars, jvmVars, crashed, callVars, waitH, loopVars,
                    histVars >>

\* lines 183-184: if (!gState.running) break; if (bytesReturned == 0) continue;
LoopRecheckRunning(t) ==
    /\ At(t, "s183")
    /\ IF gState.running = 0 THEN Goto(t, "s286")
       ELSE IF buf[t] = << >> THEN Goto(t, "s168")
       ELSE Goto(t, "s188")
    /\ UNCHANGED << gJvm, gState, osVars, jvmVars, crashed, callVars, waitH, loopVars,
                    histVars >>

\* lines 275-277: advance to the next record, or leave the for loop
Advance(t) ==
    IF idx[t] = Len(buf[t])
    THEN /\ Goto(t, "s168")
         /\ UNCHANGED idx
    ELSE /\ idx' = [idx EXCEPT ![t] = @ + 1]
         /\ UNCHANGED pc

\* lines 203-206: a RENAMED_NEW_NAME record is passed over
SkipRenamedNew(t) ==
    /\ At(t, "s188")
    /\ buf[t][idx[t]].Action = FILE_ACTION_RENAMED_NEW_NAME
    /\ Advance(t)
    /\ UNCHANGED << gJvm, gState, osVars, jvmVars, crashed, callVars, waitH, buf,
                    delivered, waitFailed, histVars >>

\* lines 213-218: GetFileAttributesExW(fullPath): a file that was removed or
\* renamed away is no longer there under the record's name
Lookup(r) ==
    IF r.Action \in {FILE_ACTION_REMOVED, FILE_ACTION_RENAMED_OLD_NAME}
    THEN NoFile
    ELSE FileAttributes(r.FileName)

\* the arguments CallVoidMethod is given for record r (lines 209-218, 245-253)
EventFor(r) ==
    [ monitorPathId |-> gState.monitorPathId,
      fullPath      |-> join_path_w(gState.dirPathW, r.FileName),
      fileName      |-> r.FileName,
      action        |-> ActionTag(r.Action),
      fileSize      |-> IF Lookup(r) = NoFile THEN 0 ELSE ToLong(Lookup(r)),
      callback      |-> gState.callbackGlobal ]

\* variant of DropRecord: a failed record ends the watch loop (a `break` out of
\* both loops instead of falling through to the advance)
DropRecord_EndsLoop(t) ==
    /\ At(t, "s188")
    /\ buf[t][idx[t]].Action # FILE_ACTION_RENAMED_NEW_NAME
    /\ Goto(t, "s286")
    /\ UNCHANGED << gJvm, gState, osVars, jvmVars, crashed, callVars, waitH, loopVars,
                    histVars >>

\* lines 220-273 end without a call: the conversion to UTF-8 (lines 223-228),
\* the attach (lines 232-236) or the allocation of the Java strings (lines
\* 238-243) failed
DropRecord(t) ==
    /\ At(t, "s188")
    /\ buf[t][idx[t]].Action # FILE_ACTION_RENAMED_NEW_NAME
    /\ Advance(t)
    /\ UNCHANGED << gJvm, gState, osVars, jvmVars, crashed, callVars, waitH, buf,
                    delivered, waitFailed, histVars >>

\* variant of Dispatch: the consumer sees the records of a buffer last first
Dispatch_Reversed(t) ==
    /\ At(t, "s188")
    /\ buf[t][idx[t]].Action # FILE_ACTION_RENAMED_NEW_NAME
    /\ gState.callbackGlobal # NULL
    /\ delivered' = [delivered EXCEPT ![t] = << EventFor(buf[t][idx[t]]) >> \o @]
    /\ Advance(t)
    /\ UNCHANGED << gJvm, gState, osVars, jvmVars, crashed, callVars, waitH, buf,
                    waitFailed, histVars >>

\* lines 188-278 with the call made: CallVoidMethod(gState.callbackGlobal,
\* gState.onEventMethod, ...) runs the consumer
Dispatch(t) ==
    /\ At(t, "s188")
    /\ buf[t][idx[t]].Action # FILE_ACTION_RENAMED_NEW_NAME
    /\ gState.callbackGlobal # NULL
    /\ delivered' = [delivered EXCEPT ![t] = Append(@, EventFor(buf[t][idx[t]]))]
    /\ Advance(t)
    /\ UNCHANGED << gJvm, gState, osVars, jvmVars, crashed, callVars, waitH, buf,
                    waitFailed, histVars >>

\* the consumer returns normally
DispatchRecord(t) == Dispatch(t)

\* lines 260-263: the consumer throws; ExceptionCheck sees it, ExceptionClear
\* clears it, and the flow goes on as after a normal return
DispatchException(t) == Dispatch(t)

\* the same call through a reference stopMonitoring has deleted or nulled
DispatchCrash(t) ==
    /\ At(t, "s188")
    /\ buf[t][idx[t]].Action # FILE_ACTION_RENAMED_NEW_NAME
    /\ gState.callbackGlobal \notin liveRefs
    /\ Crash

\* ------------------------------------------- cleanup at the end of start
\* lines 286-288
CleanupCloseHandle(t) ==
    /\ At(t, "s286")
    /\ IF NonNullHandle(gState.dirHandle)
       THEN CloseHandle(gState.dirHandle) /\ Goto(t, "s289")
       ELSE UNCHANGED << osVars, waitH >> /\ Goto(t, "s292")
    /\ UNCHANGED << gJvm, gState, jvmVars, crashed, callVars, loopVars, histVars >>

\* line 289
CleanupClearHandle(t) ==
    /\ At(t, "s289")
    /\ gState' = [gState EXCEPT !.dirHandle = NULL]
    /\ Goto(t, "s292")
    /\ UNCHANGED << gJvm, osVars, jvmVars, crashed, callVars, waitH, loopVars, histVars >>

\* lines 292-294: AttachCurrentThread fails, the references are kept
CleanupAttachFailed(t) ==
    /\ At(t, "s292")
    /\ Goto(t, "s307")
    /\ UNCHANGED << gJvm, gState, osVars, jvmVars, crashed, callVars, waitH, loopVars,
                    histVars >>

\* lines 292-296: AttachCurrentThread succeeds
CleanupDeleteClass(t) ==
    /\ At(t, "s292")
    /\ IF gState.callbackClass # NULL
       THEN DeleteGlobalRef(gState.callbackClass) /\ Goto(t, "s297")
       ELSE UNCHANGED jvmVars /\ Goto(t, "s299")
    /\ UNCHANGED << gJvm, gState, osVars, crashed, callVars, waitH, loopVars, histVars >>

\* line 297
CleanupClearClass(t) ==
    /\ At(t, "s297")
    /\ gState' = [gState EXCEPT !.callbackClass = NULL]
    /\ Goto(t, "s299")
    /\ UNCHANGED << gJvm, osVars, jvmVars, crashed, callVars, waitH, loopVars, histVars >>

\* lines 299-300
CleanupDeleteCallback(t) ==
    /\ At(t, "s299")
    /\ IF gState.callbackGlobal # NULL
       THEN DeleteGlobalRef(gState.callbackGlobal) /\ Goto(t, "s301")
       ELSE UNCHANGED jvmVars /\ Goto(t, "s307")
    /\ UNCHANGED << gJvm, gState, osVars, crashed, callVars, waitH, loopVars, histVars >>

\* line 301
CleanupClearCallback(t) ==
    /\ At(t, "s301")
    /\ gState' = [gState EXCEPT !.callbackGlobal = NULL]
    /\ Goto(t, "s307")
    /\ UNCHANGED << gJvm, osVars, jvmVars, crashed, callVars, waitH, loopVars, histVars >>

\* variant of StartReturn: startMonitoring returns without line 307
StartReturn_KeepsRunning(t) ==
    /\ At(t, "s307")
    /\ Return(t)
    /\ buf' = [buf EXCEPT ![t] = << >>]
    /\ idx' = [idx EXCEPT ![t] = 0]
    /\ delivered' = [delivered EXCEPT ![t] = << >>]
    /\ waitFailed' = [waitFailed EXCEPT ![t] = FALSE]
    /\ UNCHANGED << gJvm, gState, osVars, jvmVars, crashed, waitH >>

\* lines 307-309: gState.running = 0, and startMonitoring returns
StartReturn(t) ==
    /\ At(t, "s307")
    /\ gState' = [gState EXCEPT !.running = 0]
    /\ Return(t)
    /\ buf' = [buf EXCEPT ![t] = << >>]
    /\ idx' = [idx EXCEPT ![t] = 0]
    /\ delivered' = [delivered EXCEPT ![t] = << >>]
    /\ waitFailed' = [waitFailed EXCEPT ![t] = FALSE]
    /\ UNCHANGED << gJvm, osVars, jvmVars, crashed, waitH >>

\* -------------------------------------------------------- stopMonitoring
\* line 348: stopMonitoring returns, its argument is gone
StopReturn(t) ==
    /\ pc' = [pc EXCEPT ![t] = "idle"]
    /\ argId' = [argId EXCEPT ![t] = 0]
    /\ UNCHANGED hDir

\* what the threads inside startMonitoring have seen once t calls stopMonitoring
StopSeenBy(t) ==
    [u \in Threads |->
        IF pc[u] = "wait" THEN "stop_in_wait"
        ELSE IF pc[u] \in InitPcs THEN "stop_in_init"
        ELSE IF InStart(u) /\ stopSeen[u] = "none" THEN "stop"
        ELSE stopSeen[u]]

\* variant of StopClearRunning: stopMonitoring also forgets the session id
StopClearRunning_ResetsId(t) ==
    /\ Callable(t) /\ t \in env.stoppers
    /\ \E id \in MonitorIds : argId' = [argId EXCEPT ![t] = id]
    /\ gState' = [gState EXCEPT !.running = 0, !.monitorPathId = 0]
    /\ Goto(t, "p326")
    /\ stopSeen' = StopSeenBy(t)
    /\ UNCHANGED << gJvm, osVars, jvmVars, crashed, hDir, waitH, loopVars,
                    everStarted, parser, env >>

\* variant of StopClearRunning: a stop with another id than the stored one
\* leaves the running flag alone
StopClearRunning_MatchOnly(t) ==
    /\ Callable(t) /\ t \in env.stoppers
    /\ \E id \in MonitorIds :
          /\ argId' = [argId EXCEPT ![t] = id]
          /\ gState' = IF id = gState.monitorPathId
                        THEN [gState EXCEPT !.running = 0] ELSE gState
    /\ Goto(t, "p326")
    /\ stopSeen' = StopSeenBy(t)
    /\ UNCHANGED << gJvm, osVars, jvmVars, crashed, hDir, waitH, loopVars,
                    everStarted, parser, env >>

\* lines 318-324: the id is compared for the log only; gState.running = 0
StopClearRunning(t) ==
    /\ Callable(t) /\ t \in env.stoppers
    /\ \E id \in MonitorIds :
          /\ argId' = [argId EXCEPT ![t] = id]
          /\ id = gState.monitorPathId \/ id # gState.monitorPathId
    /\ gState' = [gState EXCEPT !.running = 0]
    /\ Goto(t, "p326")
    /\ stopSeen' = StopSeenBy(t)
    /\ UNCHANGED << gJvm, osVars, jvmVars, crashed, hDir, waitH, loopVars,
                    everStarted, parser, env >>

\* lines 326-328
StopCloseHandle(t) ==
    /\ At(t, "p326")
    /\ IF NonNullHandle(gState.dirHandle)
       THEN CloseHandle(gState.dirHandle) /\ Goto(t, "p329")
       ELSE UNCHANGED << osVars, waitH >> /\ Goto(t, "p332")
    /\ UNCHANGED << gJvm, gState, jvmVars, crashed, callVars, loopVars, histVars >>

\* line 329
StopClearHandle(t) ==
    /\ At(t, "p329")
    /\ gState' = [gState EXCEPT !.dirHandle = NULL]
    /\ Goto(t, "p332")
    /\ UNCHANGED << gJvm, osVars, jvmVars, crashed, callVars, waitH, loopVars, histVars >>

\* lines 332-334, 347: AttachCurrentThread fails, the references are kept
StopAttachFailed(t) ==
    /\ At(t, "p332")
    /\ StopReturn(t)
    /\ UNCHANGED << gJvm, gState, osVars, jvmVars, crashed, waitH, loopVars, histVars >>

\* lines 332-336: AttachCurrentThread succeeds
StopDeleteClass(t) ==
    /\ At(t, "p332")
    /\ IF gState.callbackClass # NULL
       THEN DeleteGlobalRef(gState.callbackClass) /\ Goto(t, "p337")
       ELSE UNCHANGED jvmVars /\ Goto(t, "p339")
    /\ UNCHANGED << gJvm, gState, osVars, crashed, callVars, waitH, loopVars, histVars >>

\* line 337
StopClearClass(t) ==
    /\ At(t, "p337")
    /\ gState' = [gState EXCEPT !.callbackClass = NULL]
    /\ Goto(t, "p339")
    /\ UNCHANGED << gJvm, osVars, jvmVars, crashed, callVars, waitH, loopVars, histVars >>

\* lines 339-340
StopDeleteCallback(t) ==
    /\ At(t, "p339")
    /\ IF gState.callbackGlobal # NULL
       THEN DeleteGlobalRef(gState.callbackGlobal) /\ Goto(t, "p341") /\ UNCHANGED callVars
       ELSE UNCHANGED jvmVars /\ StopReturn(t)
    /\ UNCHANGED << gJvm, gState, osVars, crashed, waitH, loopVars, histVars >>

\* lines 341-348
StopClearCallback(t) ==
    /\ At(t, "p341")
    /\ gState' = [gState EXCEPT !.callbackGlobal = NULL]
    /\ StopReturn(t)
    /\ UNCHANGED << gJvm, osVars, jvmVars, crashed, waitH, loopVars, histVars >>

\* --------------------------------------- isMonitoringActive, getNativeMonitorStats
\* line 373
isMonitoringActive ==
    gState.running # 0 /\ NonNullHandle(gState.dirHandle)

IsActiveCall(t) ==
    /\ Callable(t)
    /\ isMonitoringActive \in BOOLEAN
    /\ UNCHANGED vars

\* lines 358-361: "running=%d, monitorId=%d"
getNativeMonitorStats == [running |-> gState.running, monitorId |-> gState.monitorPathId]

GetStatsCall(t) ==
    /\ Callable(t)
    /\ getNativeMonitorStats.running \in {0, 1}
    /\ UNCHANGED vars

\* ------------------------------ lines 186-278 over the bytes of a buffer
\* The walk of the loop over one buffer, with the records as the bytes they
\* are: a header of NextEntryOffset, Action and FileNameLength, then the name.
\* The bytes are whatever the buffer holds: each header is any header.
programVars == << gJvm, gState, osVars, jvmVars, crashed, pc, callVars, waitH,
                  loopVars, stopSeen, everStarted, env >>

\* bytesReturned of a buffer that holds at least one header
RawLengths == HeaderBytes .. MaxRawLen

Min(a, b) == IF a < b THEN a ELSE b

\* the headers the bytes at pNotify can spell
Headers ==
    [ NextEntryOffset : {0} \cup { n \in HeaderBytes .. MaxRawLen : n % 4 = 0 },
      Action          : {FILE_ACTION_ADDED, FILE_ACTION_RENAMED_NEW_NAME},
      FileNameLength  : { n \in 0 .. 8 : n % WCharBytes = 0 } \cup {LongNameBytes} ]

\* lines 190-192: copyLen, in characters
copyLen(h) == Min(h.FileNameLength \div WCharBytes, MAX_PATH_LEN - 1)

\* line 186: pNotify = buffer, after a wait that returned L > 0 bytes
ParseBegin ==
    /\ parser.at = "none"
    /\ \E L \in RawLengths :
          parser' = [at |-> "header", L |-> L, off |-> 0, hdr |-> << >>, readEnd |-> 0]
    /\ UNCHANGED programVars

\* lines 190, 197, 204, 276: the fields of *pNotify are read
ParseHeader ==
    /\ parser.at = "header"
    /\ \E h \in Headers :
          /\ parser.off + h.NextEntryOffset <= MaxOffset
          /\ parser' = [parser EXCEPT !.at = "name", !.hdr = h,
                                       !.readEnd = parser.off + HeaderBytes]
    /\ UNCHANGED programVars

\* line 193: wcsncpy(wFilename, pNotify->FileName, copyLen) reads copyLen
\* characters after the header (the name holds no NUL character)
ParseName ==
    /\ parser.at = "name"
    /\ parser' = [parser EXCEPT
                     !.at = "advance",
                     !.readEnd = IF copyLen(parser.hdr) = 0 THEN @
                                 ELSE parser.off + HeaderBytes
                                        + WCharBytes * copyLen(parser.hdr)]
    /\ UNCHANGED programVars

\* lines 204-205 and 276-277: the next record is at pNotify + NextEntryOffset
ParseAdvance ==
    /\ parser.at = "advance"
    /\ parser.hdr.NextEntryOffset # 0
    /\ parser' = [parser EXCEPT !.at = "header",
                                 !.off = @ + parser.hdr.NextEntryOffset]
    /\ UNCHANGED programVars

\* lines 204 and 276: NextEntryOffset == 0 ends the walk
ParseEnd ==
    /\ parser.at = "advance"
    /\ parser.hdr.NextEntryOffset = 0
    /\ parser' = NoParse
    /\ UNCHANGED programVars

ParserNext == ParseBegin \/ ParseHeader \/ ParseName \/ ParseAdvance \/ ParseEnd

\* ------------------------------------------------------------------ system
StartStep(t) ==
    \/ StartNullArg(t) \/ StartGetCharsFailed(t) \/ StartCopyPath(t)
    \/ StartOpenFailed(t) \/ StartOpenDir(t)
    \/ StartStoreHandle(t) \/ StartSetRunning(t)
    \/ StartCallbackRef(t) \/ StartCallbackRefFailed(t)
    \/ StartGetClass(t) \/ StartGetClassCrash(t) \/ StartGetClassFailed(t)
    \/ StartClassRef(t) \/ StartClassRefFailed(t)
    \/ StartGetMethod(t) \/ StartGetMethodCrash(t) \/ StartGetMethodFailed(t)

LoopStep(t) ==
    \/ LoopCheckRunning(t) \/ LoopIssueWait(t) \/ LoopRecheckRunning(t)
    \/ SkipRenamedNew(t) \/ DropRecord(t) \/ DispatchRecord(t) \/ DispatchException(t)
    \/ DispatchCrash(t)

WaitStep(t) ==
    \/ WaitBuffer(t) \/ WaitEmpty(t) \/ WaitFailed(t) \/ WaitHandleClosed(t)

CleanupStep(t) ==
    \/ CleanupCloseHandle(t) \/ CleanupClearHandle(t) \/ CleanupAttachFailed(t)
    \/ CleanupDeleteClass(t) \/ CleanupClearClass(t)
    \/ CleanupDeleteCallback(t) \/ CleanupClearCallback(t) \/ StartReturn(t)

StopStep(t) ==
    \/ StopClearRunning(t) \/ StopCloseHandle(t) \/ StopClearHandle(t)
    \/ StopAttachFailed(t) \/ StopDeleteClass(t) \/ StopClearClass(t)
    \/ StopDeleteCallback(t) \/ StopClearCallback(t)

QueryStep(t) == IsActiveCall(t) \/ GetStatsCall(t)

Next ==
    \/ JNI_OnLoad
    \/ \E t \in Threads :
          \/ StartStep(t) \/ LoopStep(t) \/ WaitStep(t) \/ CleanupStep(t)
          \/ StopStep(t) \/ QueryStep(t)

Spec == Init /\ [][Next]_vars

SpecBuffers == InitBuffers /\ [][Next]_vars

\* Scheduling: a thread inside a native method keeps running, and the OS
\* completes a wait whose handle was closed.  Nothing obliges the application
\* to call a native method, nor the file system to change or to fail.
ProgramStep(t) ==
    pc[t] # "idle" /\ (StartStep(t) \/ LoopStep(t) \/ CleanupStep(t) \/ StopStep(t))

FairSpec ==
    /\ Spec
    /\ \A t \in Threads : WF_vars(ProgramStep(t)) /\ WF_vars(WaitHandleClosed(t))

ParserSpec == InitBuffers /\ [][ParserNext]_vars

FairSpecBuffers ==
    /\ SpecBuffers
    /\ \A t \in Threads : WF_vars(ProgramStep(t)) /\ WF_vars(WaitHandleClosed(t))

\* ================================================================= properties

\* the session state with nothing in it: not running, no handle, no references
IdleSession ==
    /\ gState.running = 0
    /\ gState.dirHandle = NULL
    /\ gState.callbackGlobal = NULL
    /\ gState.callbackClass = NULL

\* thread t takes a step of stopMonitoring
StopStepTaken(t) ==
    \/ pc[t] = "idle" /\ pc'[t] = "p326"
    \/ pc[t] \in StopPcs /\ pc'[t] # pc[t]

\* thread t returns from a startMonitoring that had entered its watch loop
ReturnsFromLoop(t) == pc[t] \in LoopPcs \cup CleanupPcs /\ pc'[t] = "idle"

\* C1: once stopMonitoring was called while a thread's watch loop was waiting
\* on the directory handle, the run reaches a state where that thread has left
\* startMonitoring, the running flag is 0 and the handle its start opened is
\* closed.
C1_StopEndsLoop ==
    \A t \in Threads :
        (stopSeen[t] = "stop_in_wait")
            ~> (pc[t] = "idle" /\ gState.running = 0 /\ HandleOf(t) \notin openHandles)

\* C2: in every reachable state at most one directory handle is open and at
\* most one thread is inside the watch loop.
C2_OneSession ==
    /\ Cardinality(openHandles) <= 1
    /\ Cardinality({ t \in Threads : pc[t] \in LoopPcs }) <= 1

\* C3: isMonitoringActive is false before any start; it is true while a thread
\* is in the watch loop of a start that no stop overlapped; it is false when no
\* thread is inside a native method (after stop, and after a wait failure ended
\* the loop).
C3_ActiveWhileWatching ==
    /\ ~everStarted => ~isMonitoringActive
    /\ \A t \in Threads :
          (pc[t] \in LoopPcs /\ stopSeen[t] = "none" /\ ~waitFailed[t])
              => isMonitoringActive
    /\ (\A t \in Threads : pc[t] = "idle") => ~isMonitoringActive

C5_StopIdempotent ==
    [][\A t \in Threads :
          (StopStepTaken(t) /\ IdleSession)
              => (UNCHANGED << gState, openHandles, liveRefs >> /\ ~crashed')]_vars

C5_Witness ==
    /\ pc["t2"] = "p339"
    /\ IdleSession
    /\ gState.monitorPathId # 0
    /\ pc["t1"] = "idle"

\* the names an event carries
NamesIn(e) == {e.fileName} \cup { e.fullPath[i] : i \in DOMAIN e.fullPath }

\* thread t has processed every record of its buffer
BufferDone(t) == pc[t] = "s168" /\ buf[t] # << >>

\* C6: when a processed buffer has a RENAMED_OLD_NAME record directly followed
\* by a RENAMED_NEW_NAME record and the consumer got the RENAME event of the
\* old name, it got exactly one RENAME event for the pair and that event
\* carries the new name as well.
C6_RenameCarriesBothNames ==
    \A t \in Threads :
        BufferDone(t) =>
            \A i \in 1 .. Len(buf[t]) - 1 :
                ( /\ buf[t][i].Action = FILE_ACTION_RENAMED_OLD_NAME
                  /\ buf[t][i + 1].Action = FILE_ACTION_RENAMED_NEW_NAME
                  /\ \E k \in DOMAIN delivered[t] :
                        delivered[t][k].fileName = buf[t][i].FileName )
                => /\ Cardinality({ k \in DOMAIN delivered[t] :
                                      /\ delivered[t][k].action = "RENAME"
                                      /\ NamesIn(delivered[t][k]) \cap
                                            {buf[t][i].FileName, buf[t][i + 1].FileName} # {} }) = 1
                   /\ \E k \in DOMAIN delivered[t] :
                         /\ delivered[t][k].action = "RENAME"
                         /\ buf[t][i].FileName \in NamesIn(delivered[t][k])
                         /\ buf[t][i + 1].FileName \in NamesIn(delivered[t][k])

\* the tag the consumer is to see for a Created / Modified / Deleted record
ChangeTag(a) ==
    CASE a = FILE_ACTION_ADDED    -> "CREATE"
      [] a = FILE_ACTION_MODIFIED -> "MODIFY"
      [] a = FILE_ACTION_REMOVED  -> "DELETE"
      [] OTHER                    -> "none"

\* the elements of q that have a tag, in the order of q
RECURSIVE SelectTags(_)
SelectTags(q) ==
    IF q = << >> THEN << >>
    ELSE IF q[1].tag # "none" THEN << q[1] >> \o SelectTags(Tail(q))
    ELSE SelectTags(Tail(q))

\* the Created / Modified / Deleted records of a buffer, in buffer order
ChangesOfBuffer(b) ==
    SelectTags([i \in DOMAIN b |-> [tag |-> ChangeTag(b[i].Action), name |-> b[i].FileName]])

\* the CREATE / MODIFY / DELETE events of a delivery log, in delivery order
ChangesDelivered(d) ==
    SelectTags([i \in DOMAIN d |->
                  [tag  |-> IF d[i].action \in {"CREATE", "MODIFY", "DELETE"}
                            THEN d[i].action ELSE "none",
                   name |-> d[i].fileName]])

\* no record of the buffer was dropped: every record but the RENAMED_NEW_NAME
\* ones produced a consumer invocation
NothingDropped(t) ==
    Len(delivered[t]) =
        Cardinality({ i \in DOMAIN buf[t] : buf[t][i].Action # FILE_ACTION_RENAMED_NEW_NAME })

\* C7: when a thread has processed a buffer and no record was dropped, the
\* CREATE / MODIFY / DELETE events the consumer got are, in order and one per
\* record, the Created / Modified / Deleted records of the buffer; that state
\* comes before the next wait, and no wait is pending while records are
\* processed.
C7_BufferOrder ==
    \A t \in Threads :
        /\ (BufferDone(t) /\ NothingDropped(t))
              => ChangesDelivered(delivered[t]) = ChangesOfBuffer(buf[t])
        /\ pc[t] \in {"s183", "s188", "s168"} => waitH[t] = NULL
        /\ pc[t] \in {"s169", "wait"} => (buf[t] = << >> /\ delivered[t] = << >>)

C7_Witness ==
    /\ BufferDone("t1") /\ NothingDropped("t1")
    /\ Len(buf["t1"]) = MaxBufLen
    /\ buf["t1"][1].Action = FILE_ACTION_REMOVED
    /\ buf["t1"][2].Action = FILE_ACTION_ADDED

\* C8: as long as every startMonitoring so far was rejected or failed to open
\* its directory (no call has stored a session id, no call is in progress),
\* the session state is the initial one: running flag, id, handle, stored path
\* and references.
C8_FailedStartKeepsState ==
    ((\A t \in Threads : pc[t] = "idle") /\ gState.monitorPathId = 0)
        => gState = InitState

\* C9: every step a thread takes on a record, whatever became of the record's
\* event (delivered, consumer exception, failed attach, failed conversion),
\* keeps the running flag, the handle and the open handles, and moves the
\* thread to the next record of the buffer or, after the last one, back to
\* the head of the watch loop.
C9_RecordFailureGoesOn ==
    [][\A t \in Threads :
          (pc[t] = "s188" /\ ~crashed' /\ << pc[t], idx[t] >> # << pc'[t], idx'[t] >>)
          => /\ gState'.running = gState.running
             /\ gState'.dirHandle = gState.dirHandle
             /\ openHandles' = openHandles
             /\ buf'[t] = buf[t]
             /\ IF idx[t] < Len(buf[t])
                THEN pc'[t] = "s188" /\ idx'[t] = idx[t] + 1
                ELSE pc'[t] = "s168"]_vars

\* the first record was dropped and the thread is at the second
C9_Witness ==
    /\ pc["t1"] = "s188" /\ idx["t1"] = 2
    /\ buf["t1"][1].Action = FILE_ACTION_MODIFIED
    /\ delivered["t1"] = << >>
    /\ isMonitoringActive

\* C10: when a thread whose wait failed, with no stop called, returns from
\* startMonitoring, the running flag is 0, the handle its start opened is
\* closed and the references its start made are deleted and cleared; and after
\* the failed wait the thread issues no further wait.
C10_WaitFailureEndsSession ==
    [][\A t \in Threads :
          (waitFailed[t] /\ stopSeen[t] = "none") =>
             /\ pc'[t] \notin {"s169", "wait"}
             /\ pc'[t] = "idle" =>
                   /\ gState'.running = 0
                   /\ HandleOf(t) \notin openHandles'
                   /\ CallbackRefOf(t) \notin liveRefs'
                   /\ ClassRefOf(t) \notin liveRefs'
                   /\ gState'.dirHandle = NULL
                   /\ gState'.callbackGlobal = NULL
                   /\ gState'.callbackClass = NULL]_vars

\* the source lines of startMonitoring after line 112 has set the running flag
\* and before the watch loop
AfterSetRunning == {"s115", "s124", "s133", "s145"}

\* C11: whenever getNativeMonitorStats reports running # 0, some thread is in
\* a startMonitoring that has set the flag (about to enter the watch loop, in
\* it, or in its cleanup), and unless a thread is in the cleanup the stored
\* directory handle is open.
C11_StatusRunning ==
    getNativeMonitorStats.running # 0 =>
        /\ \E t \in Threads : pc[t] \in AfterSetRunning \cup LoopPcs \cup CleanupPcs
        /\ (\A t \in Threads : pc[t] \notin CleanupPcs) => gState.dirHandle \in openHandles

\* C12: the file size of every event given to the consumer is not negative.
C12_SizeNeverNegative ==
    \A t \in Threads : \A k \in DOMAIN delivered[t] : delivered[t][k].fileSize >= 0

\* a step of stopMonitoring called with another id than the stored one
MismatchedStop(t) == pc'[t] \in StopPcs \cup {"idle"} /\ pc[t] \in StopPcs \cup {"idle"}
                     /\ pc[t] # pc'[t]
                     /\ (IF pc[t] = "idle" THEN argId'[t] ELSE argId[t]) # gState.monitorPathId

\* C13: a stopMonitoring called with an id that is not the stored one clears
\* the running flag on entry, closes the stored handle if there is one, and
\* releases the class and callback references that are stored.
C13_MismatchedStopActs ==
    [][\A t \in Threads : MismatchedStop(t) =>
         /\ pc[t] = "idle" => gState'.running = 0
         /\ (pc[t] = "p326" /\ NonNullHandle(gState.dirHandle))
               => gState.dirHandle \notin openHandles' /\ pc'[t] = "p329"
         /\ pc[t] = "p329" => gState'.dirHandle = NULL
         /\ (pc[t] = "p332" /\ pc'[t] # "idle" /\ gState.callbackClass # NULL)
               => gState.callbackClass \notin liveRefs'
         /\ pc[t] = "p337" => gState'.callbackClass = NULL
         /\ (pc[t] = "p339" /\ gState.callbackGlobal # NULL)
               => gState.callbackGlobal \notin liveRefs'
         /\ pc[t] = "p341" => gState'.callbackGlobal = NULL]_vars

\* a stop called with id 2 on the session with id 1 has cleared the flag,
\* closed the handle and deleted both references
C13_Witness ==
    /\ pc["t2"] = "p341" /\ argId["t2"] = 2 /\ gState.monitorPathId = 1
    /\ pc["t1"] \in LoopPcs \cup CleanupPcs
    /\ gState.running = 0 /\ openHandles = {} /\ liveRefs = {}
    /\ gState.dirHandle = NULL
\* C14: when stopMonitoring is called while a startMonitoring is at lines
\* 94-112, the stop is not lost: later that startMonitoring call has returned,
\* or the running flag is clear and its directory handle is closed (or the
\* process has died).
C14_StopDuringInit ==
    \A t \in Threads :
        (stopSeen[t] = "stop_in_init")
            ~> \/ crashed \/ pc[t] = "idle"
               \/ gState.running = 0 /\ HandleOf(t) \notin openHandles
\* the watch loop of t makes a consumer invocation in this step
Invokes(t) == Len(delivered'[t]) > Len(delivered[t])

\* C15: every consumer invocation of the watch loop goes through a callback
\* reference that has not been released.
C15_InvokesLiveCallback ==
    [][\A t \in Threads : Invokes(t) => gState.callbackGlobal \in liveRefs]_vars
\* t calls CloseHandle(gState.dirHandle) in this step (line 287 or 327)
ClosesHandle(t) ==
    \/ pc[t] = "s286" /\ pc'[t] = "s289"
    \/ pc[t] = "p326" /\ pc'[t] = "p329"

\* t calls DeleteGlobalRef in this step, on gState.callbackClass (line 296 or
\* 336), on gState.callbackGlobal (line 300 or 340)
DeletesClass(t) ==
    \/ pc[t] = "s292" /\ pc'[t] = "s297"
    \/ pc[t] = "p332" /\ pc'[t] = "p337"

DeletesCallback(t) ==
    \/ pc[t] = "s299" /\ pc'[t] = "s301"
    \/ pc[t] = "p339" /\ pc'[t] = "p341"

\* C16: every CloseHandle of the cleanup and of stopMonitoring is made on an
\* open handle, and every DeleteGlobalRef on a reference not yet released: no
\* handle is closed twice and no reference released twice.
C16_ReleasedOnce ==
    [][\A t \in Threads :
         /\ ClosesHandle(t) => gState.dirHandle \in openHandles
         /\ DeletesClass(t) => gState.callbackClass \in liveRefs
         /\ DeletesCallback(t) => gState.callbackGlobal \in liveRefs]_vars
\* C17: every byte the walk over a buffer reads, of a record header or of a
\* name, lies before the valid length L of the buffer.
C17_ReadsWithinLength == parser.readEnd <= parser.L
\* record i of buffer b is a RENAMED_OLD_NAME record with no RENAMED_NEW_NAME
\* record directly after it / a RENAMED_NEW_NAME record with no
\* RENAMED_OLD_NAME record directly before it
StandaloneOld(b, i) ==
    /\ b[i].Action = FILE_ACTION_RENAMED_OLD_NAME
    /\ i = Len(b) \/ b[i + 1].Action # FILE_ACTION_RENAMED_NEW_NAME

StandaloneNew(b, i) ==
    /\ b[i].Action = FILE_ACTION_RENAMED_NEW_NAME
    /\ i = 1 \/ b[i - 1].Action # FILE_ACTION_RENAMED_OLD_NAME

\* C18: when a thread has processed a buffer and no record failed, every
\* standalone RENAMED_OLD_NAME record has given the consumer a RENAME_OLD event
\* with its name, and every standalone RENAMED_NEW_NAME record has given it an
\* event with its name.
C18_NoRenameDropped ==
    \A t \in Threads :
        (BufferDone(t) /\ NothingDropped(t)) =>
            \A i \in DOMAIN buf[t] :
                /\ StandaloneOld(buf[t], i) =>
                      \E k \in DOMAIN delivered[t] :
                          /\ delivered[t][k].fileName = buf[t][i].FileName
                          /\ delivered[t][k].action = "RENAME_OLD"
                /\ StandaloneNew(buf[t], i) =>
                      \E k \in DOMAIN delivered[t] :
                          delivered[t][k].fileName = buf[t][i].FileName
\* C19: every event the watch loop of a session delivers carries the id given
\* to the startMonitoring call that runs the loop, and a full path under the
\* directory given to it (a directory that could be opened).
C19_EventsCarryOwnSession ==
    \A t \in Threads : \A k \in DOMAIN delivered[t] :
        /\ delivered[t][k].monitorPathId = MonitorIdOf(t)
        /\ delivered[t][k].fullPath[1] \in Dirs
\* C20: the watch loop of a session that was stopped while it waited touches
\* no later session: its cleanup closes the handle and deletes the references
\* of its own startMonitoring call only, its return leaves the running flag
\* of another thread's session as it is, and it waits again on its own handle
\* only.
C20_OldLoopLeavesNewSession ==
    [][\A t \in Threads : stopSeen[t] = "stop_in_wait" =>
         /\ (pc[t] = "s286" /\ pc'[t] = "s289") => gState.dirHandle = HandleOf(t)
         /\ (pc[t] = "s292" /\ pc'[t] = "s297") => gState.callbackClass = ClassRefOf(t)
         /\ (pc[t] = "s299" /\ pc'[t] = "s301") => gState.callbackGlobal = CallbackRefOf(t)
         /\ (pc[t] = "s169" /\ pc'[t] = "wait") => waitH'[t] = HandleOf(t)
         /\ ( /\ pc[t] = "s307" /\ pc'[t] = "idle"
              /\ \E u \in Threads \ {t} : pc[u] \in AfterSetRunning \cup LoopPcs )
               => gState'.running = gState.running]_vars
====
